---- MODULE Spec2Model ----
(***************************************************************************)
(* Model of layers/enums.go: the per-family EnumMetadata registries, the   *)
(* Decode / String / LayerType methods of the protocol enumerations, the   *)
(* package init, errorFunc, decodeIPv4or6 and Dot11Type.MainType.          *)
(***************************************************************************)
EXTENDS Integers, Sequences, FiniteSets, TLC

VARIABLES
    registry,   \* the package-level <Family>Metadata variables, by family
    phase,      \* "load" before init() has run, "config" after it, "steady" once configuration ended
    lastReg,    \* history: the row most recently registered by a caller for (family, code)
    nregs,      \* history: number of caller registrations so far
    call,       \* the last completed method call and its result
    writer,     \* the registration in progress in the configuring goroutine
    readers,    \* the reader goroutines: position, family and the fields loaded so far
    steadyReg,  \* history: the registry as it was when configuration ended
    sdata,      \* decodeIPv4or6: the buffer handed in
    spc,        \* decodeIPv4or6: "call" before the call, "done" after
    sret,       \* decodeIPv4or6: the outcome of the call
    d11,        \* MainType: the receiver
    d11pc,      \* MainType: number of applications done
    d11out      \* MainType: results of the applications

vars == <<registry, phase, lastReg, nregs, call, writer, readers, steadyReg,
          sdata, spc, sret, d11, d11pc, d11out>>

----------------------------------------------------------------------------
(* Bounds *)

MaxRegs == 2        \* caller registrations in a sequential run
MaxLen == 3         \* longest buffer handed to decodeIPv4or6
MaxConcRegs == 1    \* registrations of the configuring goroutine in a concurrent run
NReaders == 2       \* reader goroutines

----------------------------------------------------------------------------
(* Text: Go strings that are formatted or searched are sequences of        *)
(* one-character strings.                                                  *)

Digits == <<"0", "1", "2", "3", "4", "5", "6", "7", "8", "9">>

RECURSIVE FormatUint(_)
FormatUint(n) ==
    IF n < 10 THEN <<Digits[n + 1]>>
    ELSE FormatUint(n \div 10) \o <<Digits[(n % 10) + 1]>>

Contains(text, sub) ==
    \E i \in 1..(Len(text) - Len(sub) + 1) : SubSeq(text, i, i + Len(sub) - 1) = sub

InvalidVersionPrefix ==
    <<"I","n","v","a","l","i","d"," ","I","P"," ","p","a","c","k","e","t"," ",
      "v","e","r","s","i","o","n"," ">>

Errorf(prefix, v) == prefix \o FormatUint(v)

----------------------------------------------------------------------------
(* Outcomes of a call.  kind is "error" (an error value with text msg),    *)
(* "delegated" (whatever routine `by` returns on buffer `data`; those      *)
(* routines live outside this file), "panic" (run-time panic), "value"     *)
(* (String / LayerType result in val) or "none".                           *)

Outcome(kind, msg, by, data, val) ==
    [kind |-> kind, msg |-> msg, by |-> by, data |-> data, val |-> val]

NoOutcome == Outcome("none", <<>>, "", <<>>, "")
Panic == Outcome("panic", <<>>, "", <<>>, "")
ErrorValue(msg) == Outcome("error", msg, "", <<>>, "")
Delegated(fn, data) == Outcome("delegated", <<>>, fn, data, "")
Value(v) == Outcome("value", <<>>, "", <<>>, v)

----------------------------------------------------------------------------
(* Decoders (gopacket.Decoder values stored in EnumMetadata.DecodeWith)    *)

NilDecoder == [fn |-> "nil", msg |-> <<>>]
DecodeFunc(name) == [fn |-> name, msg |-> <<>>]
errorFunc(msg) == [fn |-> "errorFunc", msg |-> msg]

ShiftRight(x, n) == x \div (2 ^ n)

IPVersionLowNibble(data) == data[1] % 16
IPVersion(data) == ShiftRight(data[1], 4)

decodeIPv4or6(data) ==
    IF Len(data) = 0 THEN Panic
    ELSE LET version == IPVersion(data) IN
         CASE version = 4 -> Delegated("decodeIPv4", data)
           [] version = 6 -> Delegated("decodeIPv6", data)
           [] OTHER -> ErrorValue(Errorf(InvalidVersionPrefix, version))

Invoke(dec, data) ==
    CASE dec.fn = "nil" -> Panic
      [] dec.fn = "errorFunc" -> ErrorValue(dec.msg)
      [] dec.fn = "decodeIPv4or6" -> decodeIPv4or6(data)
      [] OTHER -> Delegated(dec.fn, data)

----------------------------------------------------------------------------
(* Protocol families and codes *)

Families ==
    {"EthernetType", "IPProtocol", "SCTPChunkType", "PPPType", "PPPoECode",
     "LinkType", "FDDIFrameControl", "EAPOLType", "ProtocolFamily",
     "Dot11Type", "USBType"}

\* families whose enumeration type has a Decode and a String method
DecodeFamilies == Families \ {"USBType"}

\* families whose enumeration type has a LayerType method
LayerTypeFamilies ==
    {"EthernetType", "IPProtocol", "EAPOLType", "ProtocolFamily", "Dot11Type"}

EthernetTypeIPv4 == 2048
EthernetTypeARP == 2054
IPProtocolTCP == 6
IPProtocolUDP == 17
\* an IPProtocol value without a named constant
UnnamedIPProtocols == {200}

\* the codes the modelled callers use, per family
Codes(F) ==
    CASE F = "EthernetType" -> {EthernetTypeIPv4, EthernetTypeARP}
      [] F = "IPProtocol" -> {IPProtocolTCP, IPProtocolUDP} \cup UnnamedIPProtocols
      [] OTHER -> {0}

Pairs == UNION {{<<F, C>> : C \in Codes(F)} : F \in Families}

----------------------------------------------------------------------------
(* EnumMetadata and the registries *)

EnumMetadata(dec, name, lt) == [DecodeWith |-> dec, Name |-> name, LayerType |-> lt]

\* the zero value of the struct: nil interface, empty string, LayerType 0
ZeroRow == EnumMetadata(NilDecoder, "", "LayerTypeZero")

ZeroRegistry == [F \in Families |-> ZeroRow]

\* the registries as init() leaves them
InitRegistry ==
    [ZeroRegistry EXCEPT
        !["EthernetType"] = EnumMetadata(DecodeFunc("decodeIPv4"), "IPv4", "LayerTypeIPv4"),
        !["IPProtocol"] = EnumMetadata(DecodeFunc("decodeUDP"), "UDP", "LayerTypeUDP")]

\* the row a method of code C of family F works on: the family's variable
Lookup(reg, F, C) == reg[F]

DecodeMethod(reg, F, C, data) == Invoke(Lookup(reg, F, C).DecodeWith, data)
StringMethod(reg, F, C) == Value(Lookup(reg, F, C).Name)
LayerTypeMethod(reg, F, C) == Value(Lookup(reg, F, C).LayerType)

\* rows that callers register
NotImplementedMsg == <<"n","o","t"," ","i","m","p","l">>
CustomRow == EnumMetadata(DecodeFunc("customDecoder"), "Custom", "LayerTypeCustom")
SentinelRow == EnumMetadata(errorFunc(NotImplementedMsg), "Sentinel", "LayerTypeZero")
NilRow == EnumMetadata(NilDecoder, "Broken", "LayerTypeCustom")
RegRows == {CustomRow, SentinelRow, NilRow}

\* families the modelled callers override
RegFamilies == {"EthernetType", "IPProtocol", "SCTPChunkType"}

\* buffers handed to Decode
CallBuffers == {<<69>>}

NoRow == EnumMetadata(DecodeFunc("none"), "none", "none")
NoCall == [op |-> "none", family |-> "", code |-> 0, data |-> <<>>, result |-> NoOutcome]
IdleWriter == [pc |-> "idle", family |-> "", row |-> NoRow, pending |-> {}]
NoResults == [Decode |-> NoOutcome, String |-> NoOutcome, LayerType |-> NoOutcome]
IdleReader == [pc |-> "idle", family |-> "", code |-> 0, data |-> <<>>,
               res |-> NoResults, inSteady |-> FALSE]

----------------------------------------------------------------------------
(* Sequential use: init, then registrations and method calls *)

RegistryIdle ==
    /\ writer = IdleWriter
    /\ readers = [t \in 1..NReaders |-> IdleReader]
    /\ steadyReg = ZeroRegistry

SniffIdle == sdata = <<>> /\ spc = "off" /\ sret = NoOutcome
Dot11Idle == d11 = 0 /\ d11pc = 3 /\ d11out = <<>>

Init ==
    /\ registry = ZeroRegistry
    /\ phase = "load"
    /\ lastReg = [p \in Pairs |-> NoRow]
    /\ nregs = 0
    /\ call = NoCall
    /\ RegistryIdle
    /\ SniffIdle
    /\ Dot11Idle

PackageInit ==
    /\ phase = "load"
    /\ registry' = InitRegistry
    /\ phase' = "config"
    /\ UNCHANGED <<lastReg, nregs, call, writer, readers, steadyReg,
                   sdata, spc, sret, d11, d11pc, d11out>>

\* a caller's <Family>Metadata = row, meant for code C
Register(F, C, row) ==
    /\ phase = "config"
    /\ nregs < MaxRegs
    /\ registry' = [registry EXCEPT ![F] = row]
    /\ lastReg' = [lastReg EXCEPT ![<<F, C>>] = row]
    /\ nregs' = nregs + 1
    /\ call' = [op |-> "register", family |-> F, code |-> C, data |-> <<>>,
                result |-> NoOutcome]
    /\ UNCHANGED <<phase, writer, readers, steadyReg,
                   sdata, spc, sret, d11, d11pc, d11out>>

Decode(F, C, data) ==
    /\ phase = "config"
    /\ call' = [op |-> "Decode", family |-> F, code |-> C, data |-> data,
                result |-> DecodeMethod(registry, F, C, data)]
    /\ UNCHANGED <<registry, phase, lastReg, nregs, writer, readers, steadyReg,
                   sdata, spc, sret, d11, d11pc, d11out>>

String(F, C) ==
    /\ phase = "config"
    /\ call' = [op |-> "String", family |-> F, code |-> C, data |-> <<>>,
                result |-> StringMethod(registry, F, C)]
    /\ UNCHANGED <<registry, phase, lastReg, nregs, writer, readers, steadyReg,
                   sdata, spc, sret, d11, d11pc, d11out>>

LayerType(F, C) ==
    /\ phase = "config"
    /\ call' = [op |-> "LayerType", family |-> F, code |-> C, data |-> <<>>,
                result |-> LayerTypeMethod(registry, F, C)]
    /\ UNCHANGED <<registry, phase, lastReg, nregs, writer, readers, steadyReg,
                   sdata, spc, sret, d11, d11pc, d11out>>

Next ==
    \/ PackageInit
    \/ \E F \in RegFamilies : \E C \in Codes(F) : \E row \in RegRows : Register(F, C, row)
    \/ \E F \in DecodeFamilies : \E C \in Codes(F) : \E data \in CallBuffers : Decode(F, C, data)
    \/ \E F \in DecodeFamilies : \E C \in Codes(F) : String(F, C)
    \/ \E F \in LayerTypeFamilies : \E C \in Codes(F) : LayerType(F, C)

Spec == Init /\ [][Next]_vars

----------------------------------------------------------------------------
(* decodeIPv4or6 on its own *)

Bytes == 0..255
TailBytes == {0, 255}

SeqsUpTo(S, n) == UNION {[1..k -> S] : k \in 0..n}

\* the empty buffer, and every first byte followed by up to MaxLen - 1 bytes
SniffBuffers ==
    {<<>>} \cup {<<b>> \o t : b \in Bytes, t \in SeqsUpTo(TailBytes, MaxLen - 1)}

InitSniff ==
    /\ registry = ZeroRegistry
    /\ phase = "off"
    /\ lastReg = [p \in Pairs |-> NoRow]
    /\ nregs = 0
    /\ call = NoCall
    /\ RegistryIdle
    /\ sdata \in SniffBuffers
    /\ spc = "call"
    /\ sret = NoOutcome
    /\ Dot11Idle

SniffCall ==
    /\ spc = "call"
    /\ sret' = decodeIPv4or6(sdata)
    /\ spc' = "done"
    /\ UNCHANGED <<registry, phase, lastReg, nregs, call, writer, readers, steadyReg,
                   sdata, d11, d11pc, d11out>>

NextSniff == SniffCall

SpecSniff == InitSniff /\ [][NextSniff]_vars

----------------------------------------------------------------------------
(* Dot11Type.MainType *)

Dot11TypeMgmt == 0
Dot11TypeCtrl == 1
Dot11TypeData == 2
Dot11TypeReserved == 3
dot11TypeMask == 3

Dot11TypeMgmtAssociationReq == 0
Dot11TypeMgmtAssociationResp == 4
Dot11TypeMgmtReassociationReq == 8
Dot11TypeMgmtReassociationResp == 12
Dot11TypeMgmtProbeReq == 16
Dot11TypeMgmtProbeResp == 20
Dot11TypeMgmtMeasurementPilot == 24
Dot11TypeMgmtBeacon == 32
Dot11TypeMgmtATIM == 36
Dot11TypeMgmtDisassociation == 40
Dot11TypeMgmtAuthentication == 44
Dot11TypeMgmtDeauthentication == 48
Dot11TypeMgmtAction == 52
Dot11TypeMgmtActionNoAck == 56
Dot11TypeCtrlWrapper == 29
Dot11TypeCtrlBlockAckReq == 33
Dot11TypeCtrlBlockAck == 37
Dot11TypeCtrlPowersavePoll == 41
Dot11TypeCtrlRTS == 45
Dot11TypeCtrlCTS == 49
Dot11TypeCtrlAck == 53
Dot11TypeCtrlCFEnd == 57
Dot11TypeCtrlCFEndAck == 61
Dot11TypeDataCFAck == 6
Dot11TypeDataCFPoll == 10
Dot11TypeDataCFAckPoll == 14
Dot11TypeDataNull == 18
Dot11TypeDataCFAckNoData == 22
Dot11TypeDataCFPollNoData == 26
Dot11TypeDataCFAckPollNoData == 30
Dot11TypeDataQOSData == 34
Dot11TypeDataQOSDataCFAck == 38
Dot11TypeDataQOSDataCFPoll == 42
Dot11TypeDataQOSDataCFAckPoll == 46
Dot11TypeDataQOSNull == 50
Dot11TypeDataQOSCFPollNoData == 58
Dot11TypeDataQOSCFAckPollNoData == 62

\* the named type/subtype constants, by the category in their name
Dot11TypeMgmtNamed ==
    {Dot11TypeMgmt,
     Dot11TypeMgmtAssociationReq,
     Dot11TypeMgmtAssociationResp,
     Dot11TypeMgmtReassociationReq,
     Dot11TypeMgmtReassociationResp,
     Dot11TypeMgmtProbeReq,
     Dot11TypeMgmtProbeResp,
     Dot11TypeMgmtMeasurementPilot,
     Dot11TypeMgmtBeacon,
     Dot11TypeMgmtATIM,
     Dot11TypeMgmtDisassociation,
     Dot11TypeMgmtAuthentication,
     Dot11TypeMgmtDeauthentication,
     Dot11TypeMgmtAction,
     Dot11TypeMgmtActionNoAck}
Dot11TypeCtrlNamed ==
    {Dot11TypeCtrl,
     Dot11TypeCtrlWrapper,
     Dot11TypeCtrlBlockAckReq,
     Dot11TypeCtrlBlockAck,
     Dot11TypeCtrlPowersavePoll,
     Dot11TypeCtrlRTS,
     Dot11TypeCtrlCTS,
     Dot11TypeCtrlAck,
     Dot11TypeCtrlCFEnd,
     Dot11TypeCtrlCFEndAck}
Dot11TypeDataNamed ==
    {Dot11TypeData,
     Dot11TypeDataCFAck,
     Dot11TypeDataCFPoll,
     Dot11TypeDataCFAckPoll,
     Dot11TypeDataNull,
     Dot11TypeDataCFAckNoData,
     Dot11TypeDataCFPollNoData,
     Dot11TypeDataCFAckPollNoData,
     Dot11TypeDataQOSData,
     Dot11TypeDataQOSDataCFAck,
     Dot11TypeDataQOSDataCFPoll,
     Dot11TypeDataQOSDataCFAckPoll,
     Dot11TypeDataQOSNull,
     Dot11TypeDataQOSCFPollNoData,
     Dot11TypeDataQOSCFAckPollNoData}

\* x & y on unsigned integers, bit by bit
RECURSIVE BitAnd(_, _)
BitAnd(x, y) ==
    IF x = 0 \/ y = 0 THEN 0
    ELSE (IF x % 2 = 1 /\ y % 2 = 1 THEN 1 ELSE 0) + 2 * BitAnd(x \div 2, y \div 2)

MainTypeWideMask(d) == BitAnd(d, 7)
MainType(d) == BitAnd(d, dot11TypeMask)

InitDot11 ==
    /\ registry = ZeroRegistry
    /\ phase = "off"
    /\ lastReg = [p \in Pairs |-> NoRow]
    /\ nregs = 0
    /\ call = NoCall
    /\ RegistryIdle
    /\ SniffIdle
    /\ d11 \in Bytes
    /\ d11pc = 0
    /\ d11out = <<>>

\* d.MainType(), then MainType() of the result
MainTypeCall ==
    /\ d11pc < 2
    /\ d11out' = Append(d11out, MainType(IF d11pc = 0 THEN d11 ELSE d11out[1]))
    /\ d11pc' = d11pc + 1
    /\ UNCHANGED <<registry, phase, lastReg, nregs, call, writer, readers, steadyReg,
                   sdata, spc, sret, d11>>

NextDot11 == MainTypeCall

SpecDot11 == InitDot11 /\ [][NextDot11]_vars

----------------------------------------------------------------------------
(* Concurrent use: one goroutine configures while reader goroutines call   *)
(* Decode, String and LayerType of a code.  Nothing in the file orders a   *)
(* store to a <Family>Metadata variable against the loads in the methods:  *)
(* the struct assignment is a store per field, in an order the build       *)
(* chooses, and each method loads the field it uses when it runs.          *)

\* the family the goroutines share
ConcFamilies == {"IPProtocol"}
ConcRows == {CustomRow, NilRow}
Fields == {"DecodeWith", "Name", "LayerType"}

\* the codes the reader goroutines use
ConcCodes(F) == Codes(F) \ {IPProtocolUDP}

\* the buffer of reader t: every reader decodes a buffer of its own
ReaderBuffer(t) == <<64 + t>>

InitConc ==
    /\ registry = InitRegistry
    /\ phase = "config"
    /\ lastReg = [p \in Pairs |-> NoRow]
    /\ nregs = 0
    /\ call = NoCall
    /\ RegistryIdle
    /\ SniffIdle
    /\ Dot11Idle

\* <Family>Metadata = row starts: no field is stored yet
BeginRegister(F, row) ==
    /\ phase = "config"
    /\ writer.pc = "idle"
    /\ nregs < MaxConcRegs
    /\ writer' = [pc |-> "writing", family |-> F, row |-> row, pending |-> Fields]
    /\ nregs' = nregs + 1
    /\ UNCHANGED <<registry, phase, lastReg, call, readers, steadyReg,
                   sdata, spc, sret, d11, d11pc, d11out>>

\* one field of the assigned struct reaches memory
StoreField(f) ==
    /\ writer.pc = "writing"
    /\ f \in writer.pending
    /\ registry' = [registry EXCEPT ![writer.family][f] = writer.row[f]]
    /\ writer' = IF writer.pending = {f} THEN IdleWriter
                 ELSE [writer EXCEPT !.pending = @ \ {f}]
    /\ UNCHANGED <<phase, lastReg, nregs, call, readers, steadyReg,
                   sdata, spc, sret, d11, d11pc, d11out>>

\* the configuration phase ends: from here on nobody registers
EndConfig ==
    /\ phase = "config"
    /\ writer.pc = "idle"
    /\ phase' = "steady"
    /\ steadyReg' = registry
    /\ UNCHANGED <<registry, lastReg, nregs, call, writer, readers,
                   sdata, spc, sret, d11, d11pc, d11out>>

\* a Decode that installs the sentinel when it finds no routine
ReaderDecodeInstallsSentinel(t, F, C) ==
    /\ phase \in {"config", "steady"}
    /\ readers[t].pc = "idle"
    /\ LET data == ReaderBuffer(t)
           found == DecodeMethod(registry, F, C, data)
           missing == found.kind = "panic" IN
       /\ registry' = IF missing THEN [registry EXCEPT ![F] = SentinelRow] ELSE registry
       /\ readers' = [readers EXCEPT ![t] =
                         [pc |-> "String", family |-> F, code |-> C, data |-> data,
                          res |-> [NoResults EXCEPT !.Decode =
                                      IF missing THEN ErrorValue(NotImplementedMsg) ELSE found],
                          inSteady |-> (phase = "steady")]]
    /\ UNCHANGED <<phase, lastReg, nregs, call, writer, steadyReg,
                   sdata, spc, sret, d11, d11pc, d11out>>
\* reader t takes code C of family F and calls C.Decode(data, p) on its buffer
ReaderDecode(t, F, C) ==
    /\ phase \in {"config", "steady"}
    /\ readers[t].pc = "idle"
    /\ LET data == ReaderBuffer(t) IN
       readers' = [readers EXCEPT ![t] =
                      [pc |-> "String", family |-> F, code |-> C, data |-> data,
                       res |-> [NoResults EXCEPT !.Decode = DecodeMethod(registry, F, C, data)],
                       inSteady |-> (phase = "steady")]]
    /\ UNCHANGED <<registry, phase, lastReg, nregs, call, writer, steadyReg,
                   sdata, spc, sret, d11, d11pc, d11out>>

\* reader t calls C.String()
ReaderString(t) ==
    /\ readers[t].pc = "String"
    /\ LET r == readers[t] IN
       readers' = [readers EXCEPT
                      ![t].res.String = StringMethod(registry, r.family, r.code),
                      ![t].pc = "LayerType"]
    /\ UNCHANGED <<registry, phase, lastReg, nregs, call, writer, steadyReg,
                   sdata, spc, sret, d11, d11pc, d11out>>

\* reader t calls C.LayerType()
ReaderLayerType(t) ==
    /\ readers[t].pc = "LayerType"
    /\ LET r == readers[t] IN
       readers' = [readers EXCEPT
                      ![t].res.LayerType = LayerTypeMethod(registry, r.family, r.code),
                      ![t].pc = "done"]
    /\ UNCHANGED <<registry, phase, lastReg, nregs, call, writer, steadyReg,
                   sdata, spc, sret, d11, d11pc, d11out>>

NextConc ==
    \/ \E F \in ConcFamilies : \E row \in ConcRows : BeginRegister(F, row)
    \/ \E f \in Fields : StoreField(f)
    \/ EndConfig
    \/ \E t \in 1..NReaders : \E F \in ConcFamilies : \E C \in ConcCodes(F) : ReaderDecode(t, F, C)
    \/ \E t \in 1..NReaders : ReaderString(t)
    \/ \E t \in 1..NReaders : ReaderLayerType(t)

SpecConc == InitConc /\ [][NextConc]_vars

----------------------------------------------------------------------------
(* Properties *)

\* the row that registrations by code would leave for (F, C)
ExpectedRow(F, C) ==
    IF lastReg[<<F, C>>] # NoRow THEN lastReg[<<F, C>>] ELSE InitRegistry[F]

\* C1: after init and any registrations, looking up code C of family F
\* gives the row most recently registered for exactly (F, C), or the row
\* init left for it when (F, C) was never registered; a registration for C
\* leaves every other code and family as it was.
C1_LastWriteWinsPerCode ==
    phase = "config" =>
        \A p \in Pairs : Lookup(registry, p[1], p[2]) = ExpectedRow(p[1], p[2])

\* C2: right after init, every code of every family with a Decode method
\* has a row with a decoding routine, and Decode never runs into a missing
\* routine.
C2_TotalCoverage ==
    (phase = "config" /\ nregs = 0) =>
        /\ \A F \in DecodeFamilies : \A C \in Codes(F) :
               Lookup(registry, F, C).DecodeWith # NilDecoder
        /\ call.op = "Decode" => call.result.kind # "panic"

\* C3: decoding an IPProtocol code that has no named constant and that no
\* caller registered (200) gives an error value whose text contains the
\* code in decimal, and runs no other code's routine.
C3_UnregisteredCodeError ==
    (/\ call.op = "Decode"
     /\ call.family = "IPProtocol"
     /\ call.code \in UnnamedIPProtocols
     /\ lastReg[<<call.family, call.code>>] = NoRow) =>
        /\ call.result.kind = "error"
        /\ Contains(call.result.msg, FormatUint(call.code))

\* two named codes of one family that denote different protocols
DistinctProtocols ==
    {<<"IPProtocol", IPProtocolTCP, IPProtocolUDP>>,
     <<"EthernetType", EthernetTypeARP, EthernetTypeIPv4>>}

\* C5: right after init, two named codes of one family that denote
\* different protocols have different names, different layer types and
\* different decoding routines.
C5_NamedCodesOwnTriple ==
    (phase = "config" /\ nregs = 0) =>
        \A q \in DistinctProtocols :
            /\ StringMethod(registry, q[1], q[2]) # StringMethod(registry, q[1], q[3])
            /\ LayerTypeMethod(registry, q[1], q[2]) # LayerTypeMethod(registry, q[1], q[3])
            /\ Lookup(registry, q[1], q[2]).DecodeWith # Lookup(registry, q[1], q[3]).DecodeWith

\* C6: a registration whose row has no decoding routine is rejected when it
\* is made: it leaves the registry as it was.
C6_NilRegistrationRejected ==
    [][(/\ nregs' = nregs + 1
        /\ call'.op = "register"
        /\ lastReg'[<<call'.family, call'.code>>].DecodeWith = NilDecoder)
       => registry' = registry]_vars

\* the rows a family's variable is ever assigned as a whole
WholeRows(F) == {InitRegistry[F]} \cup ConcRows

\* the results a reader gets when all three calls work on row
ResultsOn(row, data) ==
    [Decode |-> Invoke(row.DecodeWith, data),
     String |-> Value(row.Name),
     LayerType |-> Value(row.LayerType)]

\* C7: with a registration running beside the readers, the routine, name
\* and layer type a reader gets for a code all come from one registration.
C7_NoTornRead ==
    \A t \in 1..NReaders :
        readers[t].pc = "done" =>
            \E row \in WholeRows(readers[t].family) :
                readers[t].res = ResultsOn(row, readers[t].data)

\* C8: once configuration has ended, the calls of concurrent readers give
\* what the same calls give one after another on the registry as
\* configured, and the registry stays as configured.
C8_SteadyReadsSequential ==
    phase = "steady" =>
        /\ registry = steadyReg
        /\ \A t \in 1..NReaders :
               LET r == readers[t] IN
               r.inSteady =>
                   /\ r.pc \in {"String", "LayerType", "done"} =>
                          r.res.Decode = DecodeMethod(steadyReg, r.family, r.code, r.data)
                   /\ r.pc \in {"LayerType", "done"} =>
                          r.res.String = StringMethod(steadyReg, r.family, r.code)
                   /\ r.pc = "done" =>
                          r.res.LayerType = LayerTypeMethod(steadyReg, r.family, r.code)

\* two readers are in the middle of their calls in the steady phase, on a
\* family whose configured row has no routine
C8_Witness ==
    /\ phase = "steady"
    /\ readers[1].inSteady /\ readers[1].pc = "String"
    /\ readers[1].res.Decode.kind = "panic"
    /\ readers[2].inSteady /\ readers[2].pc = "LayerType"
    /\ readers[2].res.String = Value(NilRow.Name)
    /\ readers[1].code # readers[2].code

\* the high 4 bits of a byte, by place value
HighNibble(b) == CHOOSE n \in 0..15 : \E low \in 0..15 : b = 16 * n + low

\* the decimal text of 0..15
NibbleText(n) == IF n < 10 THEN <<Digits[n + 1]>> ELSE <<"1", Digits[n - 9]>>

\* C4: on a buffer of at least one byte, high nibble 4 hands the same
\* buffer to decodeIPv4 and returns its result, high nibble 6 does so with
\* decodeIPv6, and any other nibble calls neither and returns an error
\* whose text contains the nibble in decimal.
C4_SniffDispatch ==
    (spc = "done" /\ Len(sdata) >= 1) =>
        LET nib == HighNibble(sdata[1]) IN
        CASE nib = 4 -> sret = Delegated("decodeIPv4", sdata)
          [] nib = 6 -> sret = Delegated("decodeIPv6", sdata)
          [] OTHER -> /\ sret.kind = "error"
                      /\ sret.by = ""
                      /\ Contains(sret.msg, NibbleText(nib))

\* first byte 0x90 was refused with an error naming 9
C4_Witness ==
    /\ spc = "done"
    /\ Len(sdata) = 2
    /\ sdata[1] = 144
    /\ sret.kind = "error"
    /\ Contains(sret.msg, <<"9">>)

\* C10: decodeIPv4or6 completes on every buffer, the empty one included,
\* with a success or an error value, never a run-time panic.
C10_SniffNeverPanics ==
    spc = "done" => sret.kind \in {"error", "delegated"}

\* C9: MainType keeps the low 2 bits of d and clears the rest, so it is one
\* of Mgmt, Ctrl, Data, Reserved, applying it again changes nothing, and
\* each named constant gets the category of its name.
C9_MainTypeCategory ==
    /\ d11pc >= 1 =>
          /\ d11out[1] = d11 - 4 * (d11 \div 4)
          /\ d11out[1] \in {Dot11TypeMgmt, Dot11TypeCtrl, Dot11TypeData, Dot11TypeReserved}
          /\ d11 \in Dot11TypeMgmtNamed => d11out[1] = Dot11TypeMgmt
          /\ d11 \in Dot11TypeCtrlNamed => d11out[1] = Dot11TypeCtrl
          /\ d11 \in Dot11TypeDataNamed => d11out[1] = Dot11TypeData
    /\ d11pc = 2 => d11out[2] = d11out[1]

\* MainType was applied twice to Dot11TypeCtrlWrapper
C9_Witness ==
    /\ d11pc = 2
    /\ d11 = Dot11TypeCtrlWrapper
    /\ d11out = <<Dot11TypeCtrl, Dot11TypeCtrl>>

====
